---- MODULE Spec2Model ----
(***************************************************************************)
(* State-machine model of the RMS limiter filter of CamillaDSP             *)
(* (src/src/limiter.rs; src/src/rms_limiter.rs is the same code under the  *)
(* name RMSLimiter).                                                       *)
(*                                                                         *)
(* Numbers.  PrcFmt is an IEEE floating-point type.  Every PrcFmt value    *)
(* the limiter computes with is non-negative (a square, a square root, a   *)
(* power of ten, or a product or quotient of those), +infinity or NaN.     *)
(* Such a value v is carried here by the exact fraction <<n, d>> equal to  *)
(* v * v (its power): sqrt and 10^(db/20) are then exact, and <, min, *    *)
(* and / on the values are <, min, * and / on the fractions.  <<1, 0>> is  *)
(* +infinity and <<0, 0>> is NaN, with the IEEE rules for x/0, 0/0,        *)
(* inf*0, inf/inf and comparisons with NaN.  Rounding is not modelled.     *)
(* A sample is [neg, sq]: its sign and the fraction of its square.         *)
(***************************************************************************)
EXTENDS Integers, Sequences, FiniteSets, TLC

\* Longest chunk handed to process_waveform.
MaxChunkLen == 2
\* Longest release (in chunks) followed after an attack.
MaxQuietChunks == 3
\* Largest numerator or denominator of a gain the model follows.
MaxInt == 100

VARIABLES
    samplerate,                 \* limiter.rs:10
    chunksize,                  \* limiter.rs:11
    rms_buffer,                 \* limiter.rs:12  [cap, items], oldest item first
    threshold_voltage_ratio,    \* limiter.rs:13
    decay_per_chunk,            \* limiter.rs:14
    current_gain,               \* limiter.rs:15
    waveform,                   \* the slice process_waveform was last called with, after the call
    last_call,                  \* the last operation and its arguments
    \* History of the calls, kept for the properties only.  A specification
    \* maintains the history variables named in observed and leaves the others
    \* at their initial values.
    observed,
    reconfigured,               \* update_parameters was called since from_config
    pushed,                     \* the last HistLen samples pushed since the buffer was created
    silence_from,               \* current_gain before the first chunk of the running all-zero streak
    attack_gain,                \* current_gain set by the attack that the running release follows
    quiet_chunks,               \* sub-threshold chunks processed since that attack
    window_quiet,               \* in each of them the window RMS was at or below the threshold
    all_quiet                   \* so it was in every process_waveform call since from_config

limiter == <<samplerate, chunksize, rms_buffer, threshold_voltage_ratio,
             decay_per_chunk, current_gain>>

history == <<observed, reconfigured, pushed, silence_from, attack_gain,
             quiet_chunks, window_quiet, all_quiet>>

vars == <<limiter, waveform, last_call, history>>

----------------------------------------------------------------------------
\* PrcFmt arithmetic

NaN  == <<0, 0>>
Inf  == <<1, 0>>
Zero == <<0, 1>>
One  == <<1, 1>>

RECURSIVE GCD(_, _)
GCD(a, b) == IF b = 0 THEN a ELSE GCD(b, a % b)

Norm(n, d) ==
    IF d = 0 THEN (IF n = 0 THEN NaN ELSE Inf)
    ELSE IF n = 0 THEN Zero
    ELSE LET g == GCD(n, d) IN <<n \div g, d \div g>>

IsNaN(a) == a = NaN
IsFinite(a) == a[2] # 0

FMul(a, b) == Norm(a[1] * b[1], a[2] * b[2])

FDiv(a, b) == Norm(a[1] * b[2], a[2] * b[1])

FAdd(a, b) ==
    IF a = Inf /\ b = Inf THEN Inf
    ELSE Norm(a[1] * b[2] + b[1] * a[2], a[2] * b[2])

\* a < b of two floats: false when either is NaN
FLt(a, b) == ~IsNaN(a) /\ ~IsNaN(b) /\ a[1] * b[2] < b[1] * a[2]

FLe(a, b) == ~IsNaN(a) /\ ~IsNaN(b) /\ a[1] * b[2] <= b[1] * a[2]

\* f64::min / f32::min: the other operand when one is NaN
FMin(a, b) ==
    IF IsNaN(a) THEN b
    ELSE IF IsNaN(b) THEN a
    ELSE IF FLt(b, a) THEN b ELSE a

RECURSIVE Pow10(_)
Pow10(k) == IF k = 0 THEN 1 ELSE 10 * Pow10(k - 1)

----------------------------------------------------------------------------
\* Inputs

Sample(neg, n) == [neg |-> neg, sq |-> <<n * n, 1>>]

\* the sample values fed to the limiter: 0.0, -2.0, 6.0 and +infinity
Samples == {Sample(FALSE, 0), Sample(TRUE, 2), Sample(FALSE, 6),
            [neg |-> FALSE, sq |-> Inf]}

Chunks == UNION {[1..n -> Samples] : n \in 0..MaxChunkLen}

\* config::LimiterParameters { threshold, decay, rms_samples }; dB values are
\* multiples of 10 so that 10^(db/20) squared is a power of ten
Thresholds == {0, 10}
Decays == {-20, 0, 20}
\* AllocRingBuffer::with_capacity takes a power of two
RmsSamples == {1, 2}
Confs == [threshold : Thresholds, decay : Decays, rms_samples : RmsSamples]

\* config::Filter: the Limiter variant with its parameters, or another filter's
FilterConfs == {[kind |-> "Limiter", parameters |-> c] : c \in Confs}
                   \cup {[kind |-> "Gain"]}

\* <<chunksize, samplerate>> of the pipeline
Timings == {<<2, 4>>}

----------------------------------------------------------------------------
\* Limiter's associated functions

chunks_per_second(cs, sr) == <<cs, sr>>

\* 10^(db/20), as the fraction of its square 10^(db/10)
db_to_voltage_ratio(db) ==
    IF db >= 0 THEN <<Pow10(db \div 10), 1>> ELSE <<1, Pow10((-db) \div 10)>>

decay_per_chunk_of(cs, sr, conf) ==
    LET cps == chunks_per_second(cs, sr)
        decay_db_per_chunk == (conf.decay * cps[1]) \div cps[2]
    IN db_to_voltage_ratio(decay_db_per_chunk)

with_capacity(cap) == [cap |-> cap, items |-> <<>>]

\* a buffer allocated anew on every update
resized_always(buf, rms_samples) == with_capacity(rms_samples)

\* limiter.rs:115-117
resized(buf, rms_samples) ==
    IF buf.cap # rms_samples THEN with_capacity(rms_samples) ELSE buf

\* a buffer that refuses a push when it is full
push_keeps_oldest(buf, item) ==
    [buf EXCEPT !.items =
        IF Len(buf.items) = buf.cap THEN buf.items ELSE Append(buf.items, item)]

\* RingBufferWrite::push: into a full buffer, over the oldest item
push(buf, item) ==
    [buf EXCEPT !.items =
        IF Len(buf.items) = buf.cap THEN Append(Tail(buf.items), item)
        ELSE Append(buf.items, item)]

RECURSIVE push_all(_, _)
push_all(buf, chunk) ==
    IF chunk = <<>> THEN buf ELSE push_all(push(buf, Head(chunk)), Tail(chunk))

RECURSIVE squared_sum(_)
squared_sum(items) ==
    IF items = <<>> THEN Zero
    ELSE FAdd(squared_sum(SubSeq(items, 1, Len(items) - 1)), items[Len(items)].sq)

\* sqrt(squared_sum / values), as the fraction of its square
rms(items) == FDiv(squared_sum(items), <<Len(items), 1>>)

\* the ratio taken upside down
candidate_gain_inverted(thr, r) == FMin(One, FDiv(r, thr))

\* limiter.rs:87-88
candidate_gain(thr, r) == FMin(One, FDiv(thr, r))

\* a release that is not clamped at 1.0
next_gain_unclamped(gain, cur, dpc) ==
    IF FLt(gain, cur) THEN gain ELSE FMul(cur, dpc)

\* an attack followed by a release step in the same call
next_gain_smoothed(gain, cur, dpc) ==
    IF FLt(gain, cur) THEN FMin(One, FMul(gain, dpc)) ELSE FMin(One, FMul(cur, dpc))

\* limiter.rs:90-94
next_gain(gain, cur, dpc) ==
    IF FLt(gain, cur) THEN gain ELSE FMin(One, FMul(cur, dpc))

\* item * gain
scale(item, g) ==
    LET p == FMul(item.sq, g)
    IN [neg |-> item.neg /\ ~IsNaN(p), sq |-> p]

apply_gain(chunk, g) == [i \in 1..Len(chunk) |-> scale(chunk[i], g)]

\* a validation that refuses decay = 0 too
validate_config_rejects_zero(conf) == IF conf.decay <= 0 THEN "ConfigError" ELSE "Ok"

validate_config(conf) == IF conf.decay < 0 THEN "ConfigError" ELSE "Ok"

----------------------------------------------------------------------------
\* History variables

None == <<>>

Max(S) == CHOOSE x \in S : \A y \in S : y <= x

HistLen == Max(RmsSamples)

Last(n, seq) == SubSeq(seq, Len(seq) - n + 1, Len(seq))

Shorter(a, b) == IF a < b THEN a ELSE b

\* a chunk of silence
AllZero(chunk) == Len(chunk) > 0 /\ \A i \in 1..Len(chunk) : chunk[i].sq = Zero

\* a chunk whose every sample has a magnitude below the threshold
SubThreshold(chunk, thr) ==
    Len(chunk) > 0 /\ \A i \in 1..Len(chunk) : FLt(chunk[i].sq, thr)

\* the RMS r of the window does not exceed the threshold
Quiet(r, thr) == ~FLt(thr, r)

Observes(h) == h \in observed

----------------------------------------------------------------------------
\* Operations

Small(a) == a[1] <= MaxInt /\ a[2] <= MaxInt

from_config(conf, cs, sr) ==
    /\ samplerate = sr
    /\ chunksize = cs
    /\ decay_per_chunk = decay_per_chunk_of(cs, sr, conf)
    /\ threshold_voltage_ratio = db_to_voltage_ratio(conf.threshold)
    /\ rms_buffer = with_capacity(conf.rms_samples)
    /\ current_gain = One
    /\ waveform = <<>>
    /\ last_call = [op |-> "from_config"]
    /\ reconfigured = FALSE
    /\ pushed = <<>>
    /\ silence_from = None
    /\ attack_gain = None
    /\ quiet_chunks = 0
    /\ window_quiet = TRUE
    /\ all_quiet = TRUE

Constructed == \E conf \in Confs, t \in Timings : from_config(conf, t[1], t[2])

\* The values of the let bindings of limiter.rs:85-94 are bound once each.
\* debug! (limiter.rs:96-101) writes a log line and changes no state.
process_waveform(chunk) ==
    \E buf \in {push_all(rms_buffer, chunk)} :
    \E r \in {rms(buf.items)} :
    \E gain \in {candidate_gain(threshold_voltage_ratio, r)} :
    \E g \in {next_gain(gain, current_gain, decay_per_chunk)} :
    \E quiet \in {Quiet(r, threshold_voltage_ratio)} :
    \E releasing \in {/\ Observes("release")
                      /\ attack_gain # None
                      /\ SubThreshold(chunk, threshold_voltage_ratio)
                      /\ quiet_chunks < MaxQuietChunks} :
       /\ Small(g)
       /\ rms_buffer' = buf
       /\ current_gain' = g
       /\ waveform' = apply_gain(chunk, g)
       /\ last_call' = [op |-> "process_waveform", chunk |-> chunk]
       /\ UNCHANGED <<samplerate, chunksize, threshold_voltage_ratio, decay_per_chunk>>
       /\ pushed' = IF Observes("pushed")
                    THEN Last(Shorter(HistLen, Len(pushed) + Len(chunk)), pushed \o chunk)
                    ELSE pushed
       /\ silence_from' = IF Observes("silence") /\ AllZero(chunk)
                          THEN (IF silence_from = None THEN current_gain ELSE silence_from)
                          ELSE None
       /\ attack_gain' = IF releasing THEN attack_gain
                         ELSE IF Observes("release") /\ FLt(gain, current_gain) /\ FLt(g, One)
                         THEN g
                         ELSE None
       /\ quiet_chunks' = IF releasing THEN quiet_chunks + 1 ELSE 0
       /\ window_quiet' = IF releasing THEN window_quiet /\ quiet ELSE TRUE
       /\ all_quiet' = IF Observes("warmup") THEN all_quiet /\ quiet ELSE all_quiet
       /\ UNCHANGED <<observed, reconfigured>>

\* With the configuration of another filter the call panics (limiter.rs:120):
\* it does not return and has no successor state.
update_parameters(filter) ==
    /\ filter.kind = "Limiter"
    /\ \E conf \in {filter.parameters} :
       /\ decay_per_chunk' = decay_per_chunk_of(chunksize, samplerate, conf)
       /\ threshold_voltage_ratio' = db_to_voltage_ratio(conf.threshold)
       /\ rms_buffer' = resized(rms_buffer, conf.rms_samples)
       /\ last_call' = [op |-> "update_parameters", rms_samples |-> conf.rms_samples]
       /\ pushed' = IF rms_buffer.cap # conf.rms_samples THEN <<>> ELSE pushed
    /\ waveform' = <<>>
    /\ UNCHANGED <<samplerate, chunksize, current_gain>>
    /\ reconfigured' = IF Observes("reconfigured") THEN TRUE ELSE reconfigured
    /\ silence_from' = None
    /\ attack_gain' = None
    /\ quiet_chunks' = 0
    /\ window_quiet' = TRUE
    /\ UNCHANGED <<observed, all_quiet>>

ValidateConfig(conf) ==
    /\ last_call' = [op |-> "validate_config", conf |-> conf,
                     result |-> validate_config(conf)]
    /\ waveform' = <<>>
    /\ UNCHANGED <<limiter, history>>

Process == \E chunk \in Chunks : process_waveform(chunk)

Next ==
    \/ Process
    \/ \E filter \in FilterConfs : update_parameters(filter)
    \/ \E conf \in Confs : ValidateConfig(conf)

\* the limiter alone
Init == Constructed /\ observed = {}
Spec == Init /\ [][Next]_vars

\* with the samples pushed into the window
InitFifo == Constructed /\ observed = {"pushed"}
SpecFifo == InitFifo /\ [][Next]_vars

\* with the streaks of all-zero chunks
InitSilence == Constructed /\ observed = {"reconfigured", "silence"}
SpecSilence == InitSilence /\ [][Next]_vars

\* with the releases that follow an attack
InitRelease == Constructed /\ observed = {"release"}
SpecRelease == InitRelease /\ [][Next]_vars

\* with the warm-up of a new limiter
InitWarmup == Constructed /\ observed = {"reconfigured", "warmup"}
SpecWarmup == InitWarmup /\ [][Next]_vars

\* The pipeline keeps handing chunks to the filter.  validate_config, which
\* neither reads nor writes a limiter, is left out of this specification.
NextLive ==
    \/ Process
    \/ \E filter \in FilterConfs : update_parameters(filter)

SpecLive == Init /\ [][NextLive]_vars /\ WF_vars(Process)

----------------------------------------------------------------------------
\* Properties

LastChunk == last_call.chunk
Processed == last_call.op = "process_waveform"
WindowRms == rms(rms_buffer.items)
\* decay >= 0 in the configuration in force
DecayNonNegative == FLe(One, decay_per_chunk)

\* C1: in every reachable state current_gain is strictly greater than 0.0 and
\* at most 1.0 (stated for the configurations validate_config accepts).
C1_GainInRange ==
    DecayNonNegative => FLt(Zero, current_gain) /\ FLe(current_gain, One)

\* C2: after every process_waveform call on an instance built with decay >= 0
\* (and not reconfigured since), current_gain <= threshold_voltage_ratio / rms
\* whenever the RMS of the window is greater than 0.
C2_RmsLimited ==
    (Processed /\ ~reconfigured /\ DecayNonNegative /\ FLt(Zero, WindowRms))
        => FLe(current_gain, FDiv(threshold_voltage_ratio, WindowRms))

\* C3: with decay >= 0, while all-zero chunks are fed, current_gain is never
\* lower than it was immediately before the first of them, and it is finite.
C3_SilenceKeepsGain ==
    (silence_from # None /\ ~reconfigured /\ DecayNonNegative)
        => ~FLt(current_gain, silence_from) /\ IsFinite(current_gain)

RECURSIVE FPow(_, _)
FPow(a, n) == IF n = 0 THEN One ELSE FMul(a, FPow(a, n - 1))

\* min(1.0, g0 * decay_per_chunk^N) of the release followed
ReleasedGain == FMin(One, FMul(attack_gain, FPow(decay_per_chunk, quiet_chunks)))

\* C4 as claimed: after an attack set current_gain to g0 < 1.0, N >= 1
\* consecutive chunks of samples below the threshold leave current_gain equal
\* to min(1.0, g0 * decay_per_chunk^N) (stated for the configurations
\* validate_config accepts).
C4_ReleaseClaimed ==
    (attack_gain # None /\ quiet_chunks >= 1 /\ DecayNonNegative)
        => current_gain = ReleasedGain

\* C4 as amended: the same, for the chunks after each of which the RMS of the
\* window is at or below the threshold.
C4_Release ==
    (attack_gain # None /\ quiet_chunks >= 1 /\ window_quiet)
        => current_gain = ReleasedGain

\* a release that took two chunks to reach 1.0
C4_Witness ==
    /\ attack_gain # None /\ quiet_chunks = 2 /\ window_quiet
    /\ FLt(Zero, attack_gain)
    /\ FLt(FMul(attack_gain, decay_per_chunk), One)
    /\ FLt(One, decay_per_chunk)
    /\ current_gain = One

\* C5: update_parameters leaves current_gain as it is; a new rms_samples
\* leaves an empty window of the new capacity, the same rms_samples leaves the
\* window as it is; after a reset the next process_waveform call computes its
\* RMS from the samples of its own chunk only.
C5_Update ==
    /\ [][last_call'.op = "update_parameters" =>
            /\ current_gain' = current_gain
            /\ rms_buffer'.cap = last_call'.rms_samples
            /\ IF rms_buffer.cap # last_call'.rms_samples
               THEN rms_buffer'.items = <<>>
               ELSE rms_buffer' = rms_buffer]_vars
    /\ [][(/\ last_call.op = "update_parameters"
           /\ rms_buffer.items = <<>>
           /\ last_call'.op = "process_waveform") =>
            rms_buffer'.items =
                Last(Shorter(rms_buffer.cap, Len(last_call'.chunk)), last_call'.chunk)]_vars

\* the window of a limiter that was limiting has just been reset
C5_Witness ==
    /\ last_call.op = "update_parameters"
    /\ rms_buffer.items = <<>>
    /\ FLt(Zero, current_gain) /\ FLt(current_gain, One)

\* C6 as claimed: while fewer than rms_samples samples have been pushed since
\* from_config, every process_waveform call leaves current_gain at 1.0 and
\* the samples of the chunk unchanged (stated for finite samples and the
\* configurations validate_config accepts).
C6_WarmupClaimed ==
    (/\ Processed /\ ~reconfigured /\ Len(rms_buffer.items) < rms_buffer.cap
     /\ DecayNonNegative
     /\ \A i \in 1..Len(rms_buffer.items) : IsFinite(rms_buffer.items[i].sq))
        => current_gain = One /\ waveform = LastChunk

\* C6 as amended: so it is with decay >= 0 as long as the RMS of the samples
\* pushed so far was at or below the threshold in every call.
C6_Warmup ==
    (/\ Processed /\ ~reconfigured /\ Len(rms_buffer.items) < rms_buffer.cap
     /\ all_quiet /\ DecayNonNegative)
        => current_gain = One /\ waveform = LastChunk

\* a signal below the threshold went through a partly filled window
C6_Witness ==
    /\ Processed /\ ~reconfigured /\ all_quiet /\ DecayNonNegative
    /\ Len(rms_buffer.items) = 1 /\ rms_buffer.cap = 2
    /\ rms_buffer.items[1].sq # Zero
    /\ waveform = LastChunk

\* C7: the window never holds more than its capacity, and holds the most
\* recent min(capacity, number pushed) samples pushed since it was created, in
\* the order of their arrival.
C7_Fifo ==
    /\ Len(rms_buffer.items) <= rms_buffer.cap
    /\ rms_buffer.items = Last(Shorter(rms_buffer.cap, Len(pushed)), pushed)

\* a push into a full window evicted the oldest of two different samples
C7_Witness ==
    /\ Processed
    /\ Len(pushed) > rms_buffer.cap
    /\ pushed[1] # pushed[2]
    /\ Len(rms_buffer.items) = rms_buffer.cap

\* C8: validate_config is Ok for every configuration with decay >= 0 and a
\* configuration error for every one with decay < 0, whatever threshold and
\* rms_samples are, and leaves the limiter as it is.
C8_Validate ==
    /\ [](last_call.op = "validate_config" =>
            /\ (last_call.conf.decay >= 0 => last_call.result = "Ok")
            /\ (last_call.conf.decay < 0 => last_call.result = "ConfigError"))
    /\ [][last_call'.op = "validate_config" => UNCHANGED limiter]_vars

\* a negative decay was refused while a limiter was limiting
C8_Witness ==
    /\ last_call.op = "validate_config"
    /\ last_call.conf.decay < 0
    /\ last_call.result = "ConfigError"
    /\ FLt(current_gain, One)

\* C9: when min(1.0, threshold_voltage_ratio / rms) of the window after the
\* push is below the current_gain held before the call, current_gain becomes
\* exactly that value (0.5 for an RMS of twice the threshold ratio), and every
\* sample of the chunk is multiplied by it.
C9_Attack ==
    [][last_call'.op = "process_waveform" =>
        LET r == rms(rms_buffer'.items)
            candidate == FMin(One, FDiv(threshold_voltage_ratio, r))
            chunk == last_call'.chunk
        IN FLt(candidate, current_gain) =>
            /\ current_gain' = candidate
            /\ waveform' = [i \in 1..Len(chunk) |-> scale(chunk[i], candidate)]
            /\ (r = FMul(<<4, 1>>, threshold_voltage_ratio) =>
                    current_gain' = <<1, 4>>)]_vars

\* an RMS of twice the threshold ratio halved the sample -2.0 to -1.0
C9_Witness ==
    /\ Processed
    /\ WindowRms = FMul(<<4, 1>>, threshold_voltage_ratio)
    /\ current_gain = <<1, 4>>
    /\ Len(waveform) > 0
    /\ LastChunk[1] = Sample(TRUE, 2)
    /\ waveform[1] = Sample(TRUE, 1)

\* decay > 0, and a chunk was processed that left the RMS of the window at or
\* below the threshold
Recovering ==
    /\ Processed
    /\ FLt(One, decay_per_chunk)
    /\ Quiet(WindowRms, threshold_voltage_ratio)

\* C10: if from some point on decay > 0 and every call is a process_waveform
\* call that keeps the RMS of the window at or below the threshold,
\* current_gain eventually is 1.0 and stays 1.0; with decay = 0 current_gain
\* never increases.
C10_Recovery ==
    /\ (<>[]Recovering) => <>[](current_gain = One)
    /\ [][(decay_per_chunk = One /\ decay_per_chunk' = One) =>
            ~FLt(current_gain, current_gain')]_vars

====
